---- MODULE Spec2Model ----
(***************************************************************************)
(* Model of BetterStackSink (src/src/betterStackSink.ts): a log sink that  *)
(* POSTs batches of log events to an ingestion service and, in durable     *)
(* mode, keeps every batch in localStorage until its POST has resolved,    *)
(* replaying what is left over when the next sink is constructed.          *)
(*                                                                         *)
(* JavaScript runs each synchronous call to completion, so the constructor *)
(* (with its whole replay loop), emit (with sendToServer up to the fetch)  *)
(* and flush are one action each.  A fetch is a task in flight: it settles *)
(* (the network answers or fails) and later its .then/.catch continuation  *)
(* runs.  A crash (page reload) drops every instance and continuation and  *)
(* keeps localStorage.                                                     *)
(***************************************************************************)
EXTENDS Integers, Sequences, FiniteSets, TLC

\* ---------------------------------------------------------------- bounds
MaxTasks   == 2   \* fetches issued over a behaviour
MaxInst    == 2   \* sinks constructed over a behaviour
MaxTime    == 2   \* last millisecond of the clock
MaxRand    == 1   \* Math.random() draws 1..MaxRand (1..1000000 in the code)
MaxEvents  == 1   \* events passed to one emit call
MaxCrashes == 1   \* page reloads over a behaviour
MaxLevel   == 64  \* highest level code handed to the wire translation

\* ------------------------------------------------------------- constants
Prefix    == "structured-log-betterstack-sink"
NoKey     == <<>>            \* storageKey left undefined (falsy)
Null      == "null"
Undefined == "undefined"
\* the constructor called without an options object
NoOptions == [present |-> FALSE, token |-> "", suppressErrors |-> Undefined, durable |-> Undefined]
\* levelSwitch = null
NoSwitch  == [present |-> FALSE, enabled |-> {}]
\* a sink of a page that has been reloaded: nothing can call it any more
DeadInst  == [alive |-> FALSE, error |-> "", suppressErrors |-> FALSE, durable |-> FALSE, levelSwitch |-> NoSwitch]

\* the severity codes an event may carry: one of the table, one outside it
EventLevels == {3, 2}
\* what a rejected fetch is rejected with
Reasons == {"TypeError: Failed to fetch"}
\* the statuses a resolved fetch carries: one success, one non-success
Statuses == {200, 500}
\* the level filters a host may install: isEnabled as the set it accepts
LevelSwitches == {[present |-> TRUE, enabled |-> {3}]}

VARIABLES
    hasStorage,   \* typeof localStorage !== 'undefined'
    hasConsole,   \* typeof console !== 'undefined' && console.warn
    storage,      \* localStorage: sequence of [key, value], in key(i) order
    now,          \* new Date().getTime()
    insts,        \* the constructor calls so far: the sink's fields, or what was thrown
    tasks,        \* the promises emit and replay made so far, with their fetches
    warnings,     \* number of console.warn calls
    crashes,      \* page reloads so far
    wire          \* one event on its way through the wire translation

vars == <<hasStorage, hasConsole, storage, now, insts, tasks, warnings, crashes, wire>>

\* ------------------------------------------------------------ localStorage
StorageKeys(st) == {st[i].key : i \in DOMAIN st}

GetItem(st, k) ==
    IF k \in StorageKeys(st)
    THEN (CHOOSE e \in {st[i] : i \in DOMAIN st} : e.key = k).value
    ELSE <<Null>>

SetItem(st, k, v) ==
    IF k \in StorageKeys(st)
    THEN [i \in DOMAIN st |-> IF st[i].key = k THEN [key |-> k, value |-> v] ELSE st[i]]
    ELSE Append(st, [key |-> k, value |-> v])

\* (a removal by prefix instead of by key)
RemoveItemKeepForeign(e, k) == ~(Len(e.key) > 0 /\ e.key[1] = Prefix)

RemoveItemKeep(e, k) == e.key # k

RemoveItem(st, k) == SelectSeq(st, LAMBDA e : RemoveItemKeep(e, k))

\* String.prototype.indexOf on a key, a key being a sequence of tokens:
\* the 0-based position of the first occurrence, -1 when there is none
IndexOf(key, tok) ==
    IF \E p \in DOMAIN key : key[p] = tok
    THEN (CHOOSE p \in DOMAIN key : key[p] = tok /\ \A q \in DOMAIN key : key[q] = tok => p <= q) - 1
    ELSE -1

IsNamespaced(key) == IndexOf(key, Prefix) = 0

NamespacedKeys(st) == {k \in StorageKeys(st) : IsNamespaced(k)}

\* `structured-log-betterstack-sink-${new Date().getTime()}-${random}`
GenerateKey(t, r) == <<Prefix, ToString(t), ToString(r)>>

\* ------------------------------------------------------- wire translation
levelMapping ==
    [l \in {0, 1, 3, 7, 15, 31, 63} |->
        CASE l = 0 -> "none" [] l = 1 -> "critical" [] l = 3 -> "error"
          [] l = 7 -> "warning" [] l = 15 -> "info" [] l = 31 -> "debug"
          [] l = 63 -> "trace"]

\* (a mapping that falls back to a default level)
mapLogLevelDefault(level) ==
    IF level \in DOMAIN levelMapping THEN levelMapping[level] ELSE "info"

mapLogLevel(level) ==
    IF level \in DOMAIN levelMapping THEN levelMapping[level] ELSE Undefined

\* JSON.stringify(events.map(...)): the records' level fields, in order
Stringify(events) == [i \in DOMAIN events |-> mapLogLevel(events[i].level)]

Events == [level : EventLevels]

\* no event is being translated
NoWire == [event |-> [level |-> 0], mapped |-> FALSE, record |-> [level |-> ""]]

\* the level codes offered to the translation: the seven of the table are
\* among them, and so are codes below, between and above them
LevelCodes == (0 - 1)..MaxLevel

EventLists == UNION {[1..n -> Events] : n \in 0..MaxEvents}

\* --------------------------------------------------------------- options
OptionsSet ==
    {NoOptions} \cup
    [present : {TRUE}, token : {"tok"}, suppressErrors : {"true", "false", Undefined},
     durable : {"true", "false", Undefined}] \cup
    [present : {TRUE}, token : {"", Undefined}, suppressErrors : {Undefined},
     durable : {"true"}]

\* ----------------------------------------------------------------- tasks
\* the promise chain around one fetch of sendRecord
\* (nsBefore: how many namespaced keys storage held when the call was made)
NewTask(inst, kind, key, body, nsBefore) ==
    [inst |-> inst, kind |-> kind, key |-> key, body |-> body, fetch |-> TRUE,
     nsBefore |-> nsBefore,
     pc |-> "pending", status |-> 0, reason |-> "",
     result |-> "pending", value |-> "", alive |-> TRUE]

\* Promise.resolve(): settled from the start, with no fetch behind it
ResolvedTask(inst, nsBefore) ==
    [inst |-> inst, kind |-> "emit", key |-> NoKey, body |-> <<>>, fetch |-> FALSE,
     nsBefore |-> nsBefore,
     pc |-> "done", status |-> 0, reason |-> "",
     result |-> "resolved", value |-> Undefined, alive |-> TRUE]

\* (a write failure taken for a failed delivery under suppressErrors)
ThrownTaskSuppressed(inst, nsBefore) == ResolvedTask(inst, nsBefore)

\* emit throws instead of returning a promise: localStorage.setItem has
\* thrown inside sendToServer, before sendRecord is called
ThrownTask(inst, nsBefore) ==
    [ResolvedTask(inst, nsBefore) EXCEPT !.result = "thrown",
                                         !.value = "QuotaExceededError"]

\* (a loop whose removals happen while it runs: every entry sent is gone
\* before the next index is read, so the entry behind it is stepped over)
RECURSIVE ReplayLoopSkips(_, _, _)
ReplayLoopSkips(st, i, requests) ==
    IF ~(i < Len(st)) THEN requests
    ELSE LET storageKey == st[i + 1].key IN
         IF IndexOf(storageKey, Prefix) # 0
         THEN ReplayLoopSkips(st, i + 1, requests)
         ELSE ReplayLoopSkips(st, i + 2,
                  Append(requests, [key |-> storageKey, body |-> GetItem(st, storageKey)]))

\* the constructor's loop over localStorage.key(0 .. length-1)
RECURSIVE ReplayLoop(_, _, _)
ReplayLoop(st, i, requests) ==
    IF ~(i < Len(st)) THEN requests
    ELSE LET storageKey == st[i + 1].key IN
         IF IndexOf(storageKey, Prefix) # 0
         THEN ReplayLoop(st, i + 1, requests)
         ELSE ReplayLoop(st, i + 1,
                  Append(requests, [key |-> storageKey, body |-> GetItem(st, storageKey)]))

\* ------------------------------------------------------------------ Init
InitialStorages ==
    { <<>>,
      << [key |-> <<"theme">>, value |-> <<"dark">>],
         [key |-> <<Prefix, "0", "1">>, value |-> <<"info">>] >>,
      << [key |-> <<Prefix, "0", "1">>, value |-> <<"info">>],
         [key |-> <<Prefix, "0", "2">>, value |-> <<"error">>],
         [key |-> <<"x", Prefix>>, value |-> <<"dark">>] >> }

Init ==
    /\ hasStorage \in BOOLEAN
    /\ hasConsole \in BOOLEAN
    /\ storage \in (IF hasStorage THEN InitialStorages ELSE {<<>>})
    /\ now = 1
    /\ insts = <<>>
    /\ tasks = <<>>
    /\ warnings = 0
    /\ crashes = 0
    /\ wire = NoWire

\* ----------------------------------------------------------- constructor
\* new BetterStackSink(options) throws: no sink comes of it
Thrown(message) == [DeadInst EXCEPT !.error = message]

\* (a constructor that takes any token)
TokenMissingNever(options) == FALSE

\* !options.token
TokenMissing(options) == options.token \in {"", Undefined}

ConstructThrows(options) ==
    /\ Len(insts) < MaxInst
    /\ \/ /\ ~options.present
          /\ insts' = Append(insts, Thrown("'options' parameter is required."))
       \/ /\ options.present
          /\ TokenMissing(options)
          /\ insts' = Append(insts, Thrown("'options.token' parameter is required."))
    /\ UNCHANGED <<wire, hasStorage, hasConsole, storage, now, tasks, warnings, crashes>>

\* (a constructor that trusts options.durable)
DowngradedNever(options) == FALSE

\* 'durable' in options && options.durable && typeof localStorage === 'undefined'
Downgraded(options) == options.durable = "true" /\ ~hasStorage

Construct(options) ==
    /\ options.present
    /\ ~TokenMissing(options)
    /\ Len(insts) < MaxInst
    /\ LET suppressErrors == (options.suppressErrors # "false")
           downgraded     == Downgraded(options)
           durable        == IF downgraded THEN FALSE ELSE options.durable = "true"
           requests       == IF durable THEN ReplayLoop(storage, 0, <<>>) ELSE <<>>
           self           == Len(insts) + 1
       IN /\ Len(tasks) + Len(requests) <= MaxTasks
          /\ warnings' = IF downgraded /\ hasConsole THEN warnings + 1 ELSE warnings
          /\ insts' = Append(insts, [alive |-> TRUE,
                                     error |-> "",
                                     suppressErrors |-> suppressErrors,
                                     durable |-> durable,
                                     levelSwitch |-> NoSwitch])
          /\ tasks' = tasks \o [j \in 1..Len(requests) |->
                                   NewTask(self, "replay", requests[j].key, requests[j].body,
                                           Cardinality(NamespacedKeys(storage)))]
    /\ UNCHANGED <<wire, hasStorage, hasConsole, storage, now, crashes>>

\* the host pipeline installs a level filter on a live sink
SetLevelSwitch(i, ls) ==
    /\ i \in DOMAIN insts
    /\ insts[i].alive
    /\ ~insts[i].levelSwitch.present
    /\ insts' = [insts EXCEPT ![i].levelSwitch = ls]
    /\ UNCHANGED <<wire, hasStorage, hasConsole, storage, now, tasks, warnings, crashes>>

\* ------------------------------------------------------------------ emit
IsEnabled(ls, level) == level \in ls.enabled

\* (a filter that is never consulted)
FilterEventsIgnored(levelSwitch, events) == events

FilterEvents(levelSwitch, events) ==
    IF levelSwitch.present
    THEN SelectSeq(events, LAMBDA e : IsEnabled(levelSwitch, e.level))
    ELSE events

\* (a sendToServer that persists whatever the mode)
UsesStorageAlways(inst) == TRUE

\* if (this.durable)
UsesStorage(inst) == inst.durable

\* (a sendToServer that posts the batch twice)
SendToServerTwice(i, events, r, full) ==
    LET body       == Stringify(events)
        storageKey == IF insts[i].durable THEN GenerateKey(now, r) ELSE NoKey
        nsBefore   == Cardinality(NamespacedKeys(storage))
        request    == NewTask(i, "emit", storageKey, body, nsBefore)
    IN /\ storage' = IF insts[i].durable
                     THEN SetItem(storage, storageKey, body) ELSE storage
       /\ tasks' = tasks \o <<request, request>>

\* sendToServer up to the point where it returns the promise chain; full
\* says that the storage takes no more, so that setItem throws
SendToServer(i, events, r, full) ==
    LET body       == Stringify(events)
        storageKey == IF UsesStorage(insts[i]) THEN GenerateKey(now, r) ELSE NoKey
        nsBefore   == Cardinality(NamespacedKeys(storage))
    IN IF UsesStorage(insts[i]) /\ full
       THEN /\ storage' = storage
            /\ tasks' = Append(tasks, ThrownTask(i, nsBefore))
       ELSE /\ storage' = IF UsesStorage(insts[i])
                          THEN SetItem(storage, storageKey, body) ELSE storage
            /\ tasks' = Append(tasks, NewTask(i, "emit", storageKey, body, nsBefore))

Emit(i, events, r, full) ==
    /\ i \in DOMAIN insts
    /\ insts[i].alive
    /\ Len(tasks) < MaxTasks
    /\ LET filteredEvents == FilterEvents(insts[i].levelSwitch, events)
       IN IF Len(filteredEvents) = 0
          THEN /\ tasks' = Append(tasks, ResolvedTask(i, Cardinality(NamespacedKeys(storage))))
               /\ UNCHANGED storage
          ELSE SendToServer(i, filteredEvents, r, full)
    /\ UNCHANGED <<wire, hasStorage, hasConsole, now, insts, warnings, crashes>>

Flush(i) ==
    /\ i \in DOMAIN insts
    /\ insts[i].alive
    /\ UNCHANGED vars

\* ----------------------------------------------------------------- fetch
\* the POST of sendRecord settles: the service answers with some status
FetchResolves(t, status) ==
    /\ t \in DOMAIN tasks
    /\ tasks[t].alive
    /\ tasks[t].pc = "pending"
    /\ tasks' = [tasks EXCEPT ![t].pc = "settled", ![t].status = status]
    /\ UNCHANGED <<wire, hasStorage, hasConsole, storage, now, insts, warnings, crashes>>

\* ... or the request fails on the network
FetchRejects(t, reason) ==
    /\ t \in DOMAIN tasks
    /\ tasks[t].alive
    /\ tasks[t].pc = "pending"
    /\ tasks' = [tasks EXCEPT ![t].pc = "settled", ![t].reason = reason]
    /\ UNCHANGED <<wire, hasStorage, hasConsole, storage, now, insts, warnings, crashes>>

\* what the .catch handler makes of a rejection
CatchValue(suppressErrors, reason) ==
    IF suppressErrors
    THEN [result |-> "resolved", value |-> Undefined]
    ELSE [result |-> "rejected", value |-> reason]

\* (a removal chained with .finally instead of .then)
ThenRunsAlways(task) == TRUE

\* does the chain's .then handler (the removal) run for this settled fetch
ThenRuns(task) == task.status # 0

\* (a .then handler that has lost its key)
ThenRemovesNothing(task) == NoKey

\* the key the .then handler removes: sendToServer's storageKey when it is
\* truthy, the constructor's done() result for a replay
ThenRemoves(task) == task.key

\* the .then / .catch continuation of a settled fetch
Continue(t) ==
    /\ t \in DOMAIN tasks
    /\ tasks[t].alive
    /\ tasks[t].pc = "settled"
    /\ LET task == tasks[t]
           sup  == insts[task.inst].suppressErrors
       IN IF ThenRuns(task)
          THEN /\ storage' = IF ThenRemoves(task) # NoKey
                             THEN RemoveItem(storage, ThenRemoves(task))
                             ELSE storage
               /\ tasks' = [tasks EXCEPT ![t].pc = "done", ![t].result = "resolved",
                                         ![t].value = Undefined]
               /\ UNCHANGED warnings
          ELSE /\ tasks' = [tasks EXCEPT ![t].pc = "done",
                                         ![t].result = CatchValue(sup, task.reason).result,
                                         ![t].value = CatchValue(sup, task.reason).value]
               /\ warnings' = IF sup /\ hasConsole THEN warnings + 1 ELSE warnings
               /\ UNCHANGED storage
    /\ UNCHANGED <<wire, hasStorage, hasConsole, now, insts, crashes>>

\* ----------------------------------------------------------- environment
Tick ==
    /\ now < MaxTime
    /\ now' = now + 1
    /\ UNCHANGED <<wire, hasStorage, hasConsole, storage, insts, tasks, warnings, crashes>>

\* the page is reloaded: only localStorage survives
Crash ==
    /\ crashes < MaxCrashes
    /\ \E i \in DOMAIN insts : insts[i].alive
    /\ crashes' = crashes + 1
    /\ insts' = [i \in DOMAIN insts |-> DeadInst]
    /\ tasks' = [t \in DOMAIN tasks |-> [tasks[t] EXCEPT !.alive = FALSE]]
    /\ UNCHANGED <<wire, hasStorage, hasConsole, storage, now, warnings>>

Next ==
    \/ \E options \in OptionsSet : ConstructThrows(options)
    \/ \E options \in OptionsSet : Construct(options)
    \/ \E i \in 1..MaxInst, ls \in LevelSwitches : SetLevelSwitch(i, ls)
    \/ \E i \in 1..MaxInst, events \in EventLists, r \in 1..MaxRand, full \in BOOLEAN :
          Emit(i, events, r, full)
    \/ \E i \in 1..MaxInst : Flush(i)
    \/ \E t \in 1..MaxTasks, status \in Statuses : FetchResolves(t, status)
    \/ \E t \in 1..MaxTasks, reason \in Reasons : FetchRejects(t, reason)
    \/ \E t \in 1..MaxTasks : Continue(t)
    \/ Tick
    \/ Crash

Spec == Init /\ [][Next]_vars

\* ------------------------------------------------- the translation alone
\* one event of any level code is handed to the mapping of sendToServer
InitWire ==
    /\ hasStorage = FALSE
    /\ hasConsole = FALSE
    /\ storage = <<>>
    /\ now = 1
    /\ insts = <<>>
    /\ tasks = <<>>
    /\ warnings = 0
    /\ crashes = 0
    /\ wire \in {[NoWire EXCEPT !.event = [level |-> l]] : l \in LevelCodes}

\* events.map(e => ({ level: this.mapLogLevel(e.level), ... }))
MapEvent ==
    /\ ~wire.mapped
    /\ wire' = [wire EXCEPT !.mapped = TRUE,
                            !.record = [level |-> mapLogLevel(wire.event.level)]]
    /\ UNCHANGED <<hasStorage, hasConsole, storage, now, insts, tasks, warnings, crashes>>

NextWire == MapEvent

SpecWire == InitWire /\ [][NextWire]_vars

\* ================================================================ claims
\* the service's answer is a success (response.ok)
SuccessStatus(status) == status \in 200..299

Succeeded(task) == SuccessStatus(task.status)

NetworkFailed(task) == task.reason # ""

\* a delivery error: a network failure or a non-success response
Failed(task) == NetworkFailed(task) \/ (task.status # 0 /\ ~SuccessStatus(task.status))

DurableEmit(task) == task.kind = "emit" /\ task.key # NoKey

InFlight(task) == task.fetch /\ task.alive /\ task.pc # "done"

\* this step runs the continuation of task t
Completes(t) == t \in DOMAIN tasks /\ tasks[t].pc = "settled" /\ tasks'[t].pc = "done"

Sup(t) == insts[tasks[t].inst].suppressErrors

Notified == IF hasConsole THEN 1 ELSE 0

NewTasks == {u \in DOMAIN tasks' : u \notin DOMAIN tasks}

StartsWithPrefix(key) == Len(key) > 0 /\ key[1] = Prefix

\* this step constructs a durable sink
ConstructedDurable ==
    /\ Len(insts') = Len(insts) + 1
    /\ insts'[Len(insts')].alive
    /\ insts'[Len(insts')].durable

\* every key a batch has been stored under
PersistedKeys ==
    NamespacedKeys(storage) \cup {tasks[t].key : t \in {u \in DOMAIN tasks : tasks[u].key # NoKey}}

\* some delivery of the batch under k has been answered with a success
Acknowledged(k) == \E t \in DOMAIN tasks : tasks[t].key = k /\ Succeeded(tasks[t])

\* what the code does on a network failure, under either policy: storage is
\* left alone, and the promise resolves after one warning or rejects with
\* the reason (the part of C2, C4, C5, C6 and C8 that the code meets)
NetworkFailureHandled ==
    [][\A t \in DOMAIN tasks :
          (Completes(t) /\ NetworkFailed(tasks[t])) =>
             /\ storage' = storage
             /\ IF Sup(t)
                THEN /\ tasks'[t].result = "resolved"
                     /\ warnings' = warnings + Notified
                ELSE /\ tasks'[t].result = "rejected"
                     /\ tasks'[t].value = tasks[t].reason
                     /\ warnings' = warnings]_vars

C2_NonSuccessIsFailure ==
    [][\A t \in DOMAIN tasks :
          (Completes(t) /\ tasks[t].status # 0 /\ ~Succeeded(tasks[t])) =>
             /\ storage' = storage
             /\ IF Sup(t)
                THEN tasks'[t].result = "resolved" /\ warnings' = warnings + Notified
                ELSE tasks'[t].result = "rejected" /\ warnings' = warnings]_vars

\* no durable emit has been called after task t
NoLaterDurableEmit(t) == \A u \in DOMAIN tasks : u > t => ~DurableEmit(tasks[u])

\* C3: when a durable emit's delivery succeeds, the key it persisted is out
\* of storage when its promise resolves; with no namespaced key in storage
\* before the call and no other durable emit since, storage then holds no
\* namespaced key at all.
C3_KeyRemovedOnSuccess ==
    [][\A t \in DOMAIN tasks :
          (Completes(t) /\ DurableEmit(tasks[t]) /\ Succeeded(tasks[t])) =>
             /\ tasks'[t].result = "resolved"
             /\ tasks[t].key \notin StorageKeys(storage')
             /\ (tasks[t].nsBefore = 0 /\ NoLaterDurableEmit(t))
                   => NamespacedKeys(storage') = {}]_vars

C3_Witness ==
    \E t \in DOMAIN tasks :
        /\ DurableEmit(tasks[t]) /\ Succeeded(tasks[t])
        /\ tasks[t].pc = "done" /\ tasks[t].result = "resolved"
        /\ tasks[t].nsBefore = 0
        /\ NamespacedKeys(storage) = {}

\* the emit of task t is the only delivery of a persisted batch so far, and
\* storage held no namespaced key before it
Alone(t) == tasks[t].nsBefore = 0 /\ \A u \in DOMAIN tasks : u # t => tasks[u].key = NoKey

\* C4: with durability and suppressErrors on, when emit's delivery fails,
\* exactly one namespaced key (the one emit persisted) remains in storage,
\* the promise resolves and the diagnostic channel gets one notification.
C4_FailureKeepsOneKey ==
    [][\A t \in DOMAIN tasks :
          (Completes(t) /\ DurableEmit(tasks[t]) /\ Failed(tasks[t]) /\ Sup(t)
             /\ Alone(t) /\ hasConsole) =>
             /\ NamespacedKeys(storage') = {tasks[t].key}
             /\ tasks'[t].result = "resolved"
             /\ warnings' = warnings + 1]_vars

\* C5: with suppressErrors false, when emit's delivery fails, the promise
\* rejects with the failure reason unmodified and nothing is written to the
\* diagnostic channel.
C5_FailureRejects ==
    [][\A t \in DOMAIN tasks :
          (Completes(t) /\ tasks[t].kind = "emit" /\ Failed(tasks[t]) /\ ~Sup(t)) =>
             /\ tasks'[t].result = "rejected"
             /\ NetworkFailed(tasks[t]) => tasks'[t].value = tasks[t].reason
             /\ warnings' = warnings]_vars

\* C6: a batch whose durable emit delivery failed keeps its key, is not sent
\* again by the same sink, and is sent again by the next construction of a
\* durable sink over the same storage.
C6_FailedBatchWaitsForReplay ==
    [][/\ \A t \in DOMAIN tasks :
             (Completes(t) /\ DurableEmit(tasks[t]) /\ Failed(tasks[t])
                /\ tasks[t].key \in StorageKeys(storage)) =>
                /\ tasks[t].key \in StorageKeys(storage')
                /\ GetItem(storage', tasks[t].key) = GetItem(storage, tasks[t].key)
       /\ \A t \in DOMAIN tasks, u \in NewTasks :
             (DurableEmit(tasks[t]) /\ tasks[t].pc = "done" /\ Failed(tasks[t])
                /\ tasks'[u].inst = tasks[t].inst /\ tasks[t].alive) =>
                ~(tasks'[u].kind = "replay" /\ tasks'[u].key = tasks[t].key)
       /\ ConstructedDurable =>
             \A t \in DOMAIN tasks :
                (DurableEmit(tasks[t]) /\ tasks[t].pc = "done" /\ Failed(tasks[t])
                   /\ tasks[t].key \in StorageKeys(storage)) =>
                   \E u \in NewTasks :
                      /\ tasks'[u].kind = "replay" /\ tasks'[u].fetch
                      /\ tasks'[u].key = tasks[t].key
                      /\ tasks'[u].body = GetItem(storage, tasks[t].key)]_vars

\* C7: constructing a durable sink issues exactly one delivery attempt for
\* every storage key that starts with the namespace prefix, with the stored
\* payload as the body, skipping and repeating none; entries whose key does
\* not start with the prefix are never sent and never removed.
C7_ReplayEveryPendingKeyOnce ==
    [][/\ ConstructedDurable =>
             /\ storage' = storage
             /\ \A k \in {x \in StorageKeys(storage) : StartsWithPrefix(x)} :
                   Cardinality({u \in NewTasks : tasks'[u].key = k}) = 1
             /\ \A u \in NewTasks :
                   /\ tasks'[u].kind = "replay" /\ tasks'[u].fetch
                   /\ tasks'[u].key \in StorageKeys(storage)
                   /\ tasks'[u].body = GetItem(storage, tasks'[u].key)
       /\ \A u \in NewTasks :
             tasks'[u].key = NoKey \/ StartsWithPrefix(tasks'[u].key)
       /\ \A i \in DOMAIN storage :
             ~StartsWithPrefix(storage[i].key) =>
                \E j \in DOMAIN storage' : storage'[j] = storage[i]]_vars

C7_Witness ==
    /\ \E t, u \in DOMAIN tasks :
          /\ tasks[t].kind = "replay" /\ tasks[u].kind = "replay"
          /\ tasks[t].inst = tasks[u].inst
          /\ tasks[t].key # tasks[u].key
          /\ tasks[t].pc = "done" /\ Succeeded(tasks[t])
    /\ <<"x", Prefix>> \in StorageKeys(storage)

\* C8: in construction-time replay an entry's key is removed if and only if
\* its own delivery succeeds; one entry's failure changes neither the other
\* entries' deliveries nor whether their keys are removed.
C8_ReplayEntriesIndependent ==
    [][\A t \in DOMAIN tasks :
          (Completes(t) /\ tasks[t].kind = "replay") =>
             /\ Succeeded(tasks[t]) => tasks[t].key \notin StorageKeys(storage')
             /\ Failed(tasks[t]) => storage' = storage
             /\ \A k \in StorageKeys(storage) \ {tasks[t].key} : k \in StorageKeys(storage')
             /\ \A u \in DOMAIN tasks : u # t => tasks'[u] = tasks[u]]_vars

\* C9: any two durable emit calls in flight at the same time have each
\* persisted their batch under a key of their own.
C9_OwnKeyPerEmit ==
    \A t, u \in DOMAIN tasks :
        (t # u /\ DurableEmit(tasks[t]) /\ DurableEmit(tasks[u])
           /\ InFlight(tasks[t]) /\ InFlight(tasks[u])) =>
           tasks[t].key # tasks[u].key

\* C9, amended: two durable emits in flight at the same time whose generated
\* keys differ do not touch each other's payload: neither the persistence
\* nor the completion of one overwrites or removes what the other stored.
C9_DistinctKeysDoNotCollide ==
    [][\A t \in DOMAIN tasks, u \in DOMAIN tasks' :
          (/\ t # u
           /\ DurableEmit(tasks[t]) /\ InFlight(tasks[t])
           /\ DurableEmit(tasks'[u]) /\ tasks'[u].key # tasks[t].key
           /\ u \in NewTasks \/ (Completes(u) /\ InFlight(tasks[u]))) =>
             GetItem(storage', tasks[t].key) = GetItem(storage, tasks[t].key)]_vars

C9_Witness ==
    \E t, u \in DOMAIN tasks :
        /\ DurableEmit(tasks[t]) /\ DurableEmit(tasks[u])
        /\ tasks[t].key # tasks[u].key
        /\ t < u /\ tasks[t].pc = "settled" /\ tasks[t].alive
        /\ tasks[u].pc = "done" /\ Succeeded(tasks[u])
        /\ GetItem(storage, tasks[t].key) = tasks[t].body

\* the level filter lets none of the events through
AllRejected(levelSwitch, events) ==
    \A n \in DOMAIN events : levelSwitch.present /\ events[n].level \notin levelSwitch.enabled

\* C10: emit with an empty event list, or with events the level filter
\* rejects entirely, resolves at once with no network call and no storage
\* write.
C10_NothingToSend ==
    [][\A i \in DOMAIN insts, events \in EventLists, r \in 1..MaxRand, full \in BOOLEAN :
          (AllRejected(insts[i].levelSwitch, events) /\ Emit(i, events, r, full)) =>
             /\ storage' = storage
             /\ \A u \in NewTasks :
                   ~tasks'[u].fetch /\ tasks'[u].result = "resolved"]_vars

C10_Witness ==
    \E t \in DOMAIN tasks :
        /\ ~tasks[t].fetch /\ tasks[t].result = "resolved"
        /\ tasks[t].alive /\ insts[tasks[t].inst].levelSwitch.present
        /\ \A u \in DOMAIN tasks : ~tasks[u].fetch

\* C11: when durability is requested and localStorage is not there, the
\* constructor does not throw, the sink is non-durable, one warning is
\* written when console.warn exists, and nothing is replayed.
C11_DurabilityDowngraded ==
    [][Len(insts') > Len(insts) =>
       \A options \in OptionsSet :
          (/\ options.present /\ options.token = "tok"
           /\ options.durable = "true" /\ ~hasStorage
           /\ Construct(options) \/ ConstructThrows(options)) =>
             /\ Len(insts') = Len(insts) + 1
             /\ insts'[Len(insts')].alive
             /\ insts'[Len(insts')].error = ""
             /\ ~insts'[Len(insts')].durable
             /\ warnings' = warnings + Notified
             /\ tasks' = tasks
             /\ storage' = storage]_vars

C11_Witness ==
    /\ ~hasStorage /\ hasConsole
    /\ warnings = 1
    /\ tasks = <<>>
    /\ \E i \in DOMAIN insts : insts[i].alive /\ ~insts[i].durable

\* C12: constructing with no options, or with a missing or empty token,
\* throws and aborts the construction: no sink comes of it, no storage
\* entry is read or removed and no delivery is attempted.
C12_BadOptionsThrow ==
    [][Len(insts') > Len(insts) =>
       \A options \in OptionsSet :
          (/\ ~options.present \/ options.token \in {"", Undefined}
           /\ Construct(options) \/ ConstructThrows(options)) =>
             /\ Len(insts') = Len(insts) + 1
             /\ ~insts'[Len(insts')].alive
             /\ insts'[Len(insts')].error # ""
             /\ tasks' = tasks
             /\ storage' = storage
             /\ warnings' = warnings]_vars

C12_Witness ==
    /\ NamespacedKeys(storage) # {}
    /\ tasks = <<>>
    /\ \E i, j \in DOMAIN insts :
          /\ insts[i].error = "'options' parameter is required."
          /\ insts[j].error = "'options.token' parameter is required."

\* the events of a batch that pass the sink's level switch
Retained(levelSwitch, events) ==
    SelectSeq(events, LAMBDA e : ~levelSwitch.present \/ e.level \in levelSwitch.enabled)

\* this step issues one POST for instance i, carrying every event of batch
OnePost(i, batch) ==
    /\ NewTasks = {Len(tasks) + 1}
    /\ LET request == tasks'[Len(tasks) + 1]
       IN /\ request.fetch /\ request.pc = "pending"
          /\ request.inst = i /\ request.kind = "emit"
          /\ Len(request.body) = Len(batch)
          /\ \A n \in DOMAIN batch :
                request.body[n] = mapLogLevel(batch[n].level)

\* a POST is issued only by a call of emit (one) or by the constructor of a
\* new durable sink (the replay): no step that settles or completes a
\* request issues another
NoRetry ==
    \A u \in NewTasks :
        tasks'[u].fetch =>
           \/ tasks'[u].kind = "emit" /\ NewTasks = {u} /\ insts' = insts
           \/ /\ tasks'[u].kind = "replay"
              /\ Len(insts') = Len(insts) + 1 /\ tasks'[u].inst = Len(insts')

C19_WriteFailureReachesCaller ==
    [][NewTasks # {} =>
       \A i \in DOMAIN insts, events \in EventLists, r \in 1..MaxRand :
          (/\ insts' = insts
           /\ insts[i].durable
           /\ Len(Retained(insts[i].levelSwitch, events)) > 0
           /\ Emit(i, events, r, TRUE)) =>
             /\ storage' = storage
             /\ warnings' = warnings
             /\ NewTasks = {Len(tasks) + 1}
             /\ ~tasks'[Len(tasks) + 1].fetch
             /\ tasks'[Len(tasks) + 1].result = "thrown"
             /\ tasks'[Len(tasks) + 1].value = "QuotaExceededError"]_vars

C19_Witness ==
    /\ hasConsole /\ warnings = 0
    /\ \E t \in DOMAIN tasks :
          /\ tasks[t].result = "thrown" /\ ~tasks[t].fetch
          /\ tasks[t].alive
          /\ insts[tasks[t].inst].durable /\ insts[tasks[t].inst].suppressErrors
          /\ \A u \in DOMAIN tasks : u # t => tasks[u].result = "thrown"

\* C16: a sink in non-durable mode, whether durability was not requested
\* or was downgraded, leaves storage alone: its constructor replays
\* nothing, its emit persists nothing, its completions remove nothing and
\* flush does nothing, so that keys left by an earlier durable run stay.
C16_NonDurableLeavesStorage ==
    [][/\ Len(insts') > Len(insts) =>
          \A options \in OptionsSet :
             (/\ options.present /\ options.token = "tok"
              /\ options.durable # "true" \/ ~hasStorage
              /\ Construct(options)) =>
                /\ ~insts'[Len(insts')].durable
                /\ storage' = storage
                /\ tasks' = tasks
       /\ NewTasks # {} =>
          \A i \in DOMAIN insts, events \in EventLists, r \in 1..MaxRand, full \in BOOLEAN :
             (/\ insts' = insts
              /\ insts[i].alive /\ ~insts[i].durable
              /\ Emit(i, events, r, full)) =>
                /\ storage' = storage
                /\ \A u \in NewTasks :
                      tasks'[u].key = NoKey /\ tasks'[u].result # "thrown"
       /\ \A t \in DOMAIN tasks :
             (Completes(t) /\ ~insts[tasks[t].inst].durable) => storage' = storage
       /\ \A i \in DOMAIN insts :
             (insts[i].alive /\ ~insts[i].durable /\ Flush(i)) => storage' = storage]_vars

\* a non-durable sink has emitted and been acknowledged while two keys of
\* an earlier durable run were in storage, and they still are
C16_Witness ==
    /\ hasStorage
    /\ Cardinality(NamespacedKeys(storage)) = 2
    /\ \A i \in DOMAIN insts : ~insts[i].durable
    /\ \E t \in DOMAIN tasks :
          /\ tasks[t].kind = "emit" /\ tasks[t].fetch /\ tasks[t].alive
          /\ tasks[t].pc = "done" /\ Succeeded(tasks[t])
          /\ tasks[t].nsBefore = 2

\* C13: in a durable emit the payload is in storage when the network call
\* is issued, a persisted key leaves storage only in the completion of a
\* delivery of it that has succeeded, and a crash leaves storage as it is.
C13_WriteFirstRemoveAfterSuccess ==
    [][/\ \A u \in NewTasks :
             (DurableEmit(tasks'[u]) /\ tasks'[u].fetch) =>
                /\ tasks'[u].key \in StorageKeys(storage')
                /\ GetItem(storage', tasks'[u].key) = tasks'[u].body
       /\ \A k \in NamespacedKeys(storage) :
             k \notin StorageKeys(storage') =>
                \E t \in DOMAIN tasks :
                    Completes(t) /\ tasks[t].key = k /\ Succeeded(tasks[t])
       /\ crashes' # crashes => storage' = storage]_vars

\* C14: when the delivery of a replayed entry fails, the key stays in
\* storage; with suppressErrors on there is one warning and the entry's
\* promise resolves, with suppressErrors off it rejects with the reason.
C14_ReplayAppliesSuppression ==
    [][\A t \in DOMAIN tasks :
          (Completes(t) /\ tasks[t].kind = "replay" /\ Failed(tasks[t])) =>
             /\ storage' = storage
             /\ IF Sup(t)
                THEN /\ tasks'[t].result = "resolved"
                     /\ warnings' = warnings + Notified
                ELSE /\ tasks'[t].result = "rejected"
                     /\ NetworkFailed(tasks[t]) => tasks'[t].value = tasks[t].reason
                     /\ warnings' = warnings]_vars

\* the deliveries of the batch persisted under k
Attempts(k) == {t \in DOMAIN tasks : tasks[t].key = k}

\* k was persisted by one emit and also replayed, and every delivery of it
\* has completed
SharedAndCompleted(k) ==
    /\ Cardinality({t \in Attempts(k) : tasks[t].kind = "emit"}) = 1
    /\ \E t \in Attempts(k) : tasks[t].kind = "replay"
    /\ \A t \in Attempts(k) : tasks[t].pc = "done"

\* C18: when a key is delivered both by the emit that persisted it and by
\* a replay, then once all deliveries of it have completed the key is in
\* storage exactly if all of them failed; and a completion removes no key
\* but its own.
C18_SharedKeyKeptIffAllFailed ==
    [][\A t \in DOMAIN tasks :
          Completes(t) =>
             /\ \A k \in StorageKeys(storage) :
                   k # tasks[t].key => k \in StorageKeys(storage')
             /\ SharedAndCompleted(tasks[t].key)' =>
                   (tasks[t].key \in StorageKeys(storage')
                      <=> \A u \in Attempts(tasks[t].key)' : Failed(tasks'[u]))]_vars

\* the level strings of the service, by level code
LevelString(code) ==
    CASE code = 0 -> "none" [] code = 1 -> "critical" [] code = 3 -> "error"
      [] code = 7 -> "warning" [] code = 15 -> "info" [] code = 31 -> "debug"
      [] code = 63 -> "trace"

\* C17: for an event whose level code is one of 0, 1, 3, 7, 15, 31, 63 the
\* translated record's level is the table's string for that code; for any
\* other code the translation goes through and the level is undefined.
C17_LevelTable ==
    wire.mapped =>
       IF wire.event.level \in {0, 1, 3, 7, 15, 31, 63}
       THEN wire.record.level = LevelString(wire.event.level)
       ELSE wire.record.level = Undefined

C17_Witness ==
    /\ wire.mapped
    /\ wire.event.level = 63
    /\ wire.record.level = "trace"

====
